---- MODULE Spec2Model ----
(***************************************************************************)
(* A model of the circuit breaker of src/src/main.rs: the CircuitBreaker   *)
(* struct, its constructor, `call` and the three state handlers, together  *)
(* with the worker thread and the mpsc channel each attempted call creates.*)
(*                                                                         *)
(* `now` is the wall clock in milliseconds.  A call in Closed or HalfOpen   *)
(* is split at its single blocking point, rx.recv_timeout: CallSpawn       *)
(* creates the channel and spawns the worker, then either RecvResult (the  *)
(* caller found a message) or TimeoutElapse followed by HandleTimeout      *)
(* (recv_timeout returned Err, the `_` arm, then the function returns and  *)
(* rx is dropped) ends it.  Caller and workers are scheduled freely: time  *)
(* may pass before any of them takes its next step.                        *)
(* A call in Open does not block and is the single action CallOpen.        *)
(*                                                                         *)
(* The supplied operation is a closure returning Result<R, E>: it is       *)
(* modelled by the value it returns, or its panic, and the time it takes.  *)
(***************************************************************************)
EXTENDS Integers, FiniteSets, Sequences, Bags, TLC

\* ------------------------------------------------------------------ bounds
MaxThreshold == 2     \* failure_threshold ranges over 0..MaxThreshold
MaxQuota     == 2     \* open_threshold_count ranges over 0..MaxQuota
MaxTimeout   == 1     \* timeout ranges over 0..MaxTimeout (milliseconds)
MaxRecovery  == 1     \* recovery_time ranges over 0..MaxRecovery
MaxTime      == 1     \* the clock reads 0..MaxTime
MaxWorkers   == 2     \* worker threads alive at the same time

\* ------------------------------------------------------------- data types
Closed   == "Closed"
Open     == "Open"
HalfOpen == "HalfOpen"
State    == {Open, Closed, HalfOpen}

Vals == {"r1"}              \* success values R of the operation
Errs == {"e1"}              \* failure values E of the operation
None == "-"

\* Result<R, E> as the operation returns it.
OpOk(v)  == [ok |-> TRUE,  v |-> v]
OpErr(e) == [ok |-> FALSE, v |-> e]
OpResults == {OpOk(v) : v \in Vals} \cup {OpErr(e) : e \in Errs}
NoResult == [ok |-> FALSE, v |-> None]

\* The operation panics inside func(): the worker's closure unwinds before
\* tx.send, and tx is dropped with nothing sent.
OpPanic == [ok |-> FALSE, v |-> "panic"]
Outcomes == OpResults \cup {OpPanic}

\* What rx.recv_timeout returns: Ok(res), Err(RecvTimeoutError::Timeout) or
\* Err(RecvTimeoutError::Disconnected).
RecvOk(res) == [tag |-> "Ok", res |-> res]
RecvErr     == [tag |-> "Timeout", res |-> NoResult]
RecvDisc    == [tag |-> "Disconnected", res |-> NoResult]
NoRecv      == [tag |-> "NoRecv", res |-> NoResult]

\* Result<_, MyError<E>> of the handlers and of call.
Ok(v)            == [tag |-> "Ok", v |-> v]
OkSome(v)        == [tag |-> "OkSome", v |-> v]
OkNone           == [tag |-> "OkNone", v |-> None]
FunctionError(e) == [tag |-> "FunctionError", v |-> e]
TimeoutError     == [tag |-> "TimeoutError", v |-> None]
NoReturn         == [tag |-> "NoReturn", v |-> None]
\* call does not return: the calling thread panics and unwinds out of it.
Panic            == [tag |-> "Panic", v |-> None]

\* ---------------------------------------------------------------- state
VARIABLES
    cb,        \* the CircuitBreaker struct
    now,       \* SystemTime::now() in milliseconds since the epoch
    pc,        \* the caller: "idle", "waiting" (in recv_timeout), "expired",
               \* "aborted" (it panicked inside call)
    wait,      \* milliseconds left of the pending recv_timeout
    worker,    \* the worker thread of the call in progress, or NoWorker
    buf,       \* the message queued in the channel of the call in progress
    orphans,   \* the bag of worker threads whose call has returned
    panicked,  \* some worker thread panicked in tx.send(res).unwrap()
    rejects,   \* parity of the calls rejected in a row with TimeoutError
    last,      \* the latest call: entry state, operation, recv result, return
    streak,    \* calls in Closed that returned FunctionError in a row
    probes,    \* calls of the latest HalfOpen episode that returned a value
    prior      \* the same count, of the HalfOpen episode that last ended in Open

vars == <<cb, now, pc, wait, worker, buf, orphans, panicked, rejects, last,
          streak, probes, prior>>

\* A worker thread: the value its func() returns and the milliseconds left
\* until func() returns it.
NoWorker == [res |-> NoResult, left |-> 0]
Thread(res, d) == [res |-> res, left |-> d]

\* entry, fc: self.state and self.failure_count when call was entered; ran: a
\* worker was spawned; op: what the operation of the call in progress returns;
\* late: time has passed beyond the deadline of recv_timeout with nothing in
\* the channel; recv: what recv_timeout returned; ret: what call returned.
NoCall == [entry |-> Closed, fc |-> 0, ran |-> FALSE, op |-> NoResult,
           late |-> FALSE, recv |-> NoRecv, ret |-> NoReturn]

\* The observers' counts after a call that entered in state `entry` returned
\* `ret`; they read what call returns, never the breaker's own counters.
Min(a, b) == IF a < b THEN a ELSE b
ProbesAfter(entry, ret) ==
    IF entry = HalfOpen /\ ret.tag = "OkSome"
    THEN Min(probes + 1, MaxQuota + 2)
    ELSE probes
PriorAfter(entry, ret) ==
    IF entry = HalfOpen
    THEN IF ret.tag = "OkSome" THEN prior ELSE probes
    ELSE 0

\* ------------------------------------------------------ the breaker's code
new(failure_threshold, timeout, recovery_time, open_threshold_count) ==
    [state                |-> Closed,
     failure_threshold    |-> failure_threshold,
     failure_count        |-> 0,
     last_failure_time    |-> 0,
     recovery_time        |-> recovery_time,
     timeout              |-> timeout,
     open_success_count   |-> 0,
     open_threshold_count |-> open_threshold_count]

\* `self.last_failure_time >= self.recovery_time`: the Open exit condition.
RecoveryElapsed(self) == self.last_failure_time >= self.recovery_time

\* failure_threshold and failure_count are u32.  A u32 is held as the integer
\* that has the same 32 bits in two's complement: a value below 2^31 is
\* itself, and u32::MAX, all bits set, is -1.  LtU32 is the order of the
\* values as u32.
U32Max == -1
LtU32(a, b) == IF (a >= 0) = (b >= 0) THEN a < b ELSE a >= 0

\* The observer's count of failures in a row after a call that entered in
\* state `entry` returned `ret`.  It is held as a u32, like the thresholds it
\* is compared with, and stops counting at MaxThreshold + 2 and at u32::MAX.
StreakAfter(entry, ret) ==
    IF entry = Closed /\ ret.tag = "FunctionError"
    THEN IF streak = MaxThreshold + 2 \/ streak = U32Max
         THEN streak
         ELSE streak + 1
    ELSE 0

\* `self.failure_count > self.failure_threshold`
ExceedsThreshold(self) == LtU32(self.failure_threshold, self.failure_count)

\* Mutant: the breaker closes one probe late.
QuotaReached_exceeding(self) ==
    self.open_success_count > self.open_threshold_count

\* `self.open_success_count >= self.open_threshold_count`
QuotaReached(self) == self.open_success_count >= self.open_threshold_count

\* `self.failure_count += 1` on a u32.  At u32::MAX the addition overflows:
\* a build with overflow checks panics there (RecvPanic), a build without
\* them wraps to 0, which is the value computed here.
OverflowsU32(x) == x = U32Max
IncU32(x) == IF OverflowsU32(x) THEN 0 ELSE x + 1

\* The counts of failures this model follows: up to MaxThreshold + 1 from 0,
\* and the last two before the u32 wraps.
CountInRange(x) == LtU32(x, MaxThreshold + 2) \/ LtU32(U32Max - 2, x)

\* `self.open_success_count += 1` on a u64.  The count is below
\* max(open_threshold_count, 1) before every addition, and this model keeps
\* open_threshold_count at MaxQuota at most, far from 2^64.
IncU64(x) == x + 1

\* Mutant: the breaker closes as soon as it may leave Open, without probing.
handle_open_state_closing(self) ==
    IF RecoveryElapsed(self)
    THEN [self |-> [self EXCEPT !.state = Closed,
                                !.open_success_count = 0,
                                !.failure_count = 0],
          ret  |-> Ok(None)]
    ELSE [self |-> self, ret |-> TimeoutError]

\* Mutant: the successful probes of the episode before count in the next.
handle_open_state_keeping(self) ==
    IF RecoveryElapsed(self)
    THEN [self |-> [self EXCEPT !.state = HalfOpen, !.failure_count = 0],
          ret  |-> Ok(None)]
    ELSE [self |-> self, ret |-> TimeoutError]

\* Mutant: a rejected call counts as a failure.
handle_open_state_counting(self) ==
    IF RecoveryElapsed(self)
    THEN [self |-> [self EXCEPT !.state = HalfOpen,
                                !.open_success_count = 0,
                                !.failure_count = 0],
          ret  |-> Ok(None)]
    ELSE [self |-> [self EXCEPT !.failure_count = IncU32(@)],
          ret  |-> TimeoutError]

handle_open_state(self) ==
    IF RecoveryElapsed(self)
    THEN [self |-> [self EXCEPT !.state = HalfOpen,
                                !.open_success_count = 0,
                                !.failure_count = 0],
          ret  |-> Ok(None)]
    ELSE [self |-> self, ret |-> TimeoutError]

\* The arms of the match on rx.recv_timeout(..) in handle_half_open_state;
\* t is the reading of SystemTime::now() taken in the failing arms.
\* Mutant: the closing probe leaves open_success_count at the quota.
half_open_success_keeping(self) ==
    LET s1 == [self EXCEPT !.open_success_count = IncU64(@)]
    IN  IF QuotaReached(s1)
        THEN [s1 EXCEPT !.state = Closed, !.failure_count = 0]
        ELSE s1

half_open_success(self) ==
    LET s1 == [self EXCEPT !.open_success_count = IncU64(@)]
    IN  IF QuotaReached(s1)
        THEN [s1 EXCEPT !.state = Closed,
                        !.open_success_count = 0,
                        !.failure_count = 0]
        ELSE s1

\* Mutant: a failed probe counts toward the threshold as a failure in Closed.
half_open_failure_counting(self, t) ==
    LET s1 == [self EXCEPT !.last_failure_time = t,
                           !.failure_count = IncU32(@)]
    IN  IF ExceedsThreshold(s1) THEN [s1 EXCEPT !.state = Open] ELSE s1

half_open_failure(self, t) ==
    [self EXCEPT !.last_failure_time = t, !.failure_count = 1, !.state = Open]

\* Mutant: a probe that times out opens the breaker with no failure counted.
half_open_timeout_zeroing(self, t) ==
    [self EXCEPT !.state = Open, !.last_failure_time = t, !.failure_count = 0]

half_open_timeout(self, t) ==
    [self EXCEPT !.state = Open, !.last_failure_time = t, !.failure_count = 1]

handle_half_open_state(self, recv, t) ==
    IF recv.tag = "Ok"
    THEN IF recv.res.ok
         THEN [self |-> half_open_success(self), ret |-> Ok(recv.res.v)]
         ELSE [self |-> half_open_failure(self, t),
               ret  |-> FunctionError(recv.res.v)]
    ELSE [self |-> half_open_timeout(self, t), ret |-> TimeoutError]

\* The arms of the match on rx.recv_timeout(..) in handle_closed_state.
\* Mutant: a success in Closed forgets when the last failure happened.
closed_success_clearing(self) ==
    [self EXCEPT !.failure_count = 0, !.state = Closed,
                 !.last_failure_time = 0]

\* Mutant: a success in Closed leaves the failures counted so far.
closed_success_keeping(self) == [self EXCEPT !.state = Closed]

closed_success(self) ==
    [self EXCEPT !.failure_count = 0, !.state = Closed]

\* Mutant: the first failure in Closed opens the breaker.
closed_failure_tripping(self, t) ==
    [self EXCEPT !.last_failure_time = t, !.failure_count = IncU32(@),
                 !.state = Open]

closed_failure(self, t) ==
    LET s1 == [self EXCEPT !.last_failure_time = t,
                           !.failure_count = IncU32(@)]
    IN  IF ExceedsThreshold(s1) THEN [s1 EXCEPT !.state = Open] ELSE s1

\* Mutant: a timeout counts like a failure, toward the threshold.
closed_timeout_counting(self, t) ==
    LET s1 == [self EXCEPT !.last_failure_time = t,
                           !.failure_count = IncU32(@)]
    IN  IF ExceedsThreshold(s1) THEN [s1 EXCEPT !.state = Open] ELSE s1

closed_timeout(self, t) ==
    [self EXCEPT !.state = Open, !.last_failure_time = t, !.failure_count = 1]

handle_closed_state(self, recv, t) ==
    IF recv.tag = "Ok"
    THEN IF recv.res.ok
         THEN [self |-> closed_success(self), ret |-> Ok(recv.res.v)]
         ELSE [self |-> closed_failure(self, t),
               ret  |-> FunctionError(recv.res.v)]
    ELSE [self |-> closed_timeout(self, t), ret |-> TimeoutError]

\* Mutant: every arm of call runs the operation.
RunsOperation_always(s) == s \in State

\* The arms of `match self.state` in call that run the operation on a worker.
RunsOperation(s) == s \in {Closed, HalfOpen}

\* Mutant: call forgets the `?` and answers Ok(None) to every call in Open.
WrapNone_swallowing(r) == OkNone

\* call's `?` and its wrapping of the handler's Ok value.
WrapNone(r) == IF r.tag = "Ok" THEN OkNone ELSE r
WrapSome(r) == IF r.tag = "Ok" THEN OkSome(r.v) ELSE r

\* The handler call dispatches to for a call that entered in state s.
Handle(s, self, recv, t) ==
    IF s = Closed THEN handle_closed_state(self, recv, t)
                  ELSE handle_half_open_state(self, recv, t)

\* Mutant: one channel is shared by all calls, so that any worker reaches the
\* receiver of the call in progress.
Delivered_shared(own) == pc # "idle"

\* tx.send(res) of a worker reaches a receiver: every call makes a channel of
\* its own, so a worker reaches rx only while its own call has not returned.
Delivered(own) == own /\ pc # "idle"

\* The threads of a bag a millisecond later.
Later(t) == IF t.left > 0 THEN [t EXCEPT !.left = @ - 1] ELSE t
LaterBag(B) ==
    LET S == {Later(t) : t \in BagToSet(B)}
    IN  [t \in S |-> (IF t.left = 0 THEN CopiesIn(t, B) ELSE 0)
                     + CopiesIn([t EXCEPT !.left = @ + 1], B)]

\* A worker whose receiver has been dropped: what it sends is never read, so
\* of its result only whether it reaches tx.send is kept.
Unread == [ok |-> TRUE, v |-> None]
Abandoned(w) == [w EXCEPT !.res = IF @ = OpPanic THEN OpPanic ELSE Unread]

\* Mutant: the function spawns a second worker for the operation when it
\* returns while the first is still running.
Orphaned_retrying(w, B) ==
    IF w = NoWorker
    THEN B
    ELSE (B (+) SetToBag({Abandoned(w)})) (+) SetToBag({Abandoned(w)})

\* The function returns and drops rx: a worker still running is left behind.
Orphaned(w, B) ==
    IF w = NoWorker THEN B ELSE B (+) SetToBag({Abandoned(w)})

\* ------------------------------------------------------------------ Init
Init ==
    /\ \E ft \in 0..MaxThreshold, to \in 0..MaxTimeout,
          rt \in 0..MaxRecovery, otc \in 0..MaxQuota :
            cb = new(ft, to, rt, otc)
    /\ now = 0
    /\ pc = "idle"
    /\ wait = 0
    /\ worker = NoWorker
    /\ buf = NoResult
    /\ orphans = EmptyBag
    /\ panicked = FALSE
    /\ rejects = 0
    /\ last = NoCall
    /\ streak = 0
    /\ probes = 0
    /\ prior = 0

\* --------------------------------------------------------------- actions
\* call in state Open: handle_open_state, no worker, no channel.
CallOpen ==
    /\ pc = "idle"
    /\ ~RunsOperation(cb.state)
    /\ LET r == handle_open_state(cb)
       IN  /\ cb' = r.self
           /\ last' = [NoCall EXCEPT !.entry = cb.state,
                                     !.fc = cb.failure_count,
                                     !.ret = WrapNone(r.ret)]
           /\ rejects' = IF r.ret = TimeoutError THEN 1 - rejects ELSE 0
           /\ probes' = IF r.self.state = HalfOpen THEN 0 ELSE probes
    /\ streak' = 0
    /\ UNCHANGED <<now, pc, wait, worker, buf, orphans, panicked, prior>>

\* call in Closed or HalfOpen, up to rx.recv_timeout: mpsc::channel() and
\* thread::spawn.  The operation returns res after d milliseconds.
CallSpawn(res, d) ==
    /\ pc = "idle"
    /\ RunsOperation(cb.state)
    /\ now + cb.timeout <= MaxTime
    /\ CountInRange(cb.failure_count)
    /\ BagCardinality(orphans) < MaxWorkers
    /\ worker' = Thread(res, d)
    /\ buf' = NoResult
    /\ wait' = cb.timeout
    /\ pc' = "waiting"
    /\ last' = [NoCall EXCEPT !.entry = cb.state, !.fc = cb.failure_count,
                              !.ran = TRUE, !.op = res]
    /\ rejects' = 0
    /\ UNCHANGED <<cb, now, orphans, panicked, streak, probes, prior>>

\* The worker's closure: func() has returned, then tx.send(res).unwrap().
\* send fails, and unwrap panics in the worker, once rx has been dropped.
\* A func() that panics sends nothing.
Send(t, own) ==
    IF t.res = OpPanic
    THEN UNCHANGED <<buf, panicked>>
    ELSE IF Delivered(own)
         THEN buf' = t.res /\ UNCHANGED panicked
         ELSE panicked' = TRUE /\ UNCHANGED buf

\* The worker of the call in progress ends: it sends, or it panicked.
WorkerSend ==
    /\ worker # NoWorker
    /\ worker.left = 0
    /\ worker' = NoWorker
    /\ Send(worker, TRUE)
    /\ UNCHANGED <<cb, now, pc, wait, orphans, rejects, last, streak, probes,
                   prior>>

\* A worker left behind by a call that has returned ends.
OrphanSend(t) ==
    /\ BagIn(t, orphans)
    /\ t.left = 0
    /\ orphans' = orphans (-) SetToBag({t})
    /\ Send(t, FALSE)
    /\ UNCHANGED <<cb, now, pc, wait, worker, rejects, last, streak, probes,
                   prior>>

\* rx.recv_timeout returned Ok(res): the Ok arm of the handler, then return.
RecvResult ==
    /\ pc = "waiting"
    /\ buf # NoResult
    /\ LET recv == RecvOk(buf)
           r    == Handle(last.entry, cb, recv, now)
       IN  /\ cb' = r.self
           /\ last' = [last EXCEPT !.late = FALSE, !.recv = recv,
                                   !.ret = WrapSome(r.ret)]
           /\ streak' = StreakAfter(last.entry, WrapSome(r.ret))
           /\ probes' = ProbesAfter(last.entry, WrapSome(r.ret))
           /\ prior' = PriorAfter(last.entry, WrapSome(r.ret))
    /\ pc' = "idle"
    /\ wait' = 0
    /\ buf' = NoResult
    /\ worker' = NoWorker
    /\ orphans' = Orphaned(worker, orphans)
    /\ UNCHANGED <<now, panicked, rejects>>

\* rx.recv_timeout returned Ok(Err(e)) in Closed with failure_count = u32::MAX,
\* in a build with overflow checks: `self.failure_count += 1` panics after
\* last_failure_time has been assigned, and the caller unwinds out of call.
RecvPanic ==
    /\ pc = "waiting"
    /\ buf # NoResult
    /\ last.entry = Closed
    /\ ~buf.ok
    /\ OverflowsU32(cb.failure_count)
    /\ cb' = [cb EXCEPT !.last_failure_time = now]
    /\ last' = [last EXCEPT !.recv = RecvOk(buf), !.ret = Panic]
    /\ pc' = "aborted"
    /\ wait' = 0
    /\ buf' = NoResult
    /\ worker' = NoWorker
    /\ orphans' = Orphaned(worker, orphans)
    /\ UNCHANGED <<now, panicked, rejects, streak, probes, prior>>

\* rx.recv_timeout found no message and returned Err: Disconnected as soon
\* as the worker has ended without sending, Timeout at the deadline.
TimeoutElapse ==
    /\ pc = "waiting"
    /\ buf = NoResult
    /\ wait = 0 \/ worker = NoWorker
    /\ pc' = "expired"
    /\ last' = [last EXCEPT
                    !.recv = IF worker = NoWorker THEN RecvDisc ELSE RecvErr]
    /\ UNCHANGED <<cb, now, wait, worker, buf, orphans, panicked, rejects,
                   streak, probes, prior>>

\* The `_` arm of the handler, then return: rx is dropped with what it holds.
HandleTimeout ==
    /\ pc = "expired"
    /\ LET r == Handle(last.entry, cb, last.recv, now)
       IN  /\ cb' = r.self
           /\ last' = [last EXCEPT !.op = NoResult, !.late = FALSE,
                                   !.ret = WrapSome(r.ret)]
           /\ streak' = StreakAfter(last.entry, WrapSome(r.ret))
           /\ probes' = ProbesAfter(last.entry, WrapSome(r.ret))
           /\ prior' = PriorAfter(last.entry, WrapSome(r.ret))
    /\ pc' = "idle"
    /\ wait' = 0
    /\ buf' = NoResult
    /\ worker' = NoWorker
    /\ orphans' = Orphaned(worker, orphans)
    /\ UNCHANGED <<now, panicked, rejects>>

\* A millisecond passes.  Nothing is urgent: the scheduler may run a worker
\* whose func() has returned, or the caller whose deadline has passed, any
\* time later, so that a result sent after the deadline is still received
\* when the caller has not run since.
Tick ==
    /\ now < MaxTime
    /\ now' = now + 1
    /\ wait' = IF wait > 0 THEN wait - 1 ELSE 0
    /\ worker' = IF worker = NoWorker THEN NoWorker ELSE Later(worker)
    /\ orphans' = LaterBag(orphans)
    /\ last' = IF pc = "waiting" /\ wait = 0 /\ buf = NoResult
               THEN [last EXCEPT !.late = TRUE]
               ELSE last
    /\ UNCHANGED <<cb, pc, buf, panicked, rejects, streak, probes, prior>>

\* SystemTime::now() is the wall clock: it is set back, while the timers of
\* recv_timeout and of the workers run on.
ClockBack ==
    /\ now > 0
    /\ now' = now - 1
    /\ UNCHANGED <<cb, pc, wait, worker, buf, orphans, panicked, rejects, last,
                   streak, probes, prior>>

Next ==
    \/ CallOpen
    \/ \E res \in Outcomes, d \in 0..(cb.timeout + 1) : CallSpawn(res, d)
    \/ WorkerSend
    \/ \E t \in BagToSet(orphans) : OrphanSend(t)
    \/ RecvResult
    \/ TimeoutElapse
    \/ HandleTimeout
    \/ Tick
    \/ ClockBack

Spec == Init /\ [][Next]_vars

\* The caller keeps calling, time keeps passing (up to MaxTime), a pending
\* recv_timeout returns and a worker whose func() has returned sends.
LiveSpec ==
    /\ Spec
    /\ WF_vars(CallOpen)
    /\ WF_vars(Tick)
    /\ WF_vars(WorkerSend)
    /\ WF_vars(RecvResult)
    /\ WF_vars(TimeoutElapse)
    /\ WF_vars(HandleTimeout)

\* A breaker built with failure_threshold = u32::MAX whose operations have
\* failed u32::MAX - 1 times in a row, all at time 0: it is Closed, with
\* failure_count = u32::MAX - 1.
WideInit ==
    /\ \E to \in 0..MaxTimeout, rt \in 0..MaxRecovery, otc \in 0..MaxQuota :
            cb = [new(U32Max, to, rt, otc)
                      EXCEPT !.failure_count = U32Max - 1]
    /\ now = 0
    /\ pc = "idle"
    /\ wait = 0
    /\ worker = NoWorker
    /\ buf = NoResult
    /\ orphans = EmptyBag
    /\ panicked = FALSE
    /\ rejects = 0
    /\ \E e \in Errs :
            last = [NoCall EXCEPT !.fc = U32Max - 2, !.ran = TRUE,
                                  !.op = OpErr(e), !.recv = RecvOk(OpErr(e)),
                                  !.ret = FunctionError(e)]
    /\ streak = U32Max - 1
    /\ probes = 0
    /\ prior = 0

\* The steps of Next, and the panic of the caller, which no behaviour of Spec
\* reaches: there failure_count stays below MaxThreshold + 2.
WideNext == Next \/ RecvPanic

WideSpec == WideInit /\ [][WideNext]_vars

\* ---------------------------------------------------------------- claims
\* The steps in which call returns.
Returns == CallOpen \/ RecvResult \/ HandleTimeout
Returned == pc = "idle" /\ last.ret # NoReturn

\* C1: whatever the operations do (success, failure, timeout), self.state
\* changes only in a step in which call returns, and only along
\* Closed->Open, Open->HalfOpen, HalfOpen->Closed and HalfOpen->Open.
Edges == {<<Closed, Open>>, <<Open, HalfOpen>>,
          <<HalfOpen, Closed>>, <<HalfOpen, Open>>}
C1_TransitionsFollowEdges ==
    [][cb'.state # cb.state =>
          Returns /\ <<cb.state, cb'.state>> \in Edges]_vars

\* A probe has just closed the breaker, which had opened on a timeout or a
\* failure before.
C1_Witness ==
    /\ Returned
    /\ last.entry = HalfOpen
    /\ cb.state = Closed
    /\ cb.last_failure_time > 0

\* A call that entered in Closed has received the operation's failure: the
\* step in which handle_closed_state counts it.
ClosedFailure ==
    (RecvResult \/ RecvPanic) /\ last.entry = Closed /\ ~buf.ok
ClosedSuccess == RecvResult /\ last.entry = Closed /\ buf.ok

\* C2: for every failure_threshold of the u32 range, from Closed with
\* failure_count = 0, the breaker is still Closed after each of the first
\* failure_threshold operation failures in a row and Open after the
\* (failure_threshold + 1)-th, the failure that finds failure_threshold
\* failures before it in the streak; a success restarts the count.
C2_OpensAfterThresholdPlusOne ==
    [][/\ cb.state = Closed => ~LtU32(cb.failure_threshold, streak)
       /\ ClosedFailure =>
             /\ cb'.state = Open <=> streak = cb.failure_threshold
             /\ cb'.state = Closed <=> streak # cb.failure_threshold
       /\ ClosedSuccess =>
             cb'.state = Closed /\ streak' = 0 /\ cb'.failure_count = 0]_vars

\* C3: a call in Closed or HalfOpen whose wait ends by the deadline leaves
\* state = Open and failure_count = 1, whatever failure_count and
\* failure_threshold were.
C3_TimeoutOpens ==
    (Returned /\ last.recv = RecvErr) =>
        /\ last.entry \in {Closed, HalfOpen}
        /\ cb.state = Open
        /\ cb.failure_count = 1

\* A timeout in Closed with failure_count = 1 and failure_threshold = 2: one
\* more failure would not have opened the breaker.
C3_Witness ==
    /\ Returned
    /\ last.recv = RecvErr
    /\ last.entry = Closed
    /\ last.fc = 1
    /\ cb.failure_threshold = 2
    /\ cb.state = Open
    /\ cb.failure_count = 1

\* C4 as stated: for every open_threshold_count, zero included, a HalfOpen
\* breaker closes after exactly open_threshold_count successful probes in a
\* row, not earlier and not later, with both counters 0.
C4_ClosesAtThresholdCount ==
    /\ cb.state = HalfOpen => probes < cb.open_threshold_count
    /\ (Returned /\ last.entry = HalfOpen /\ last.ret.tag = "OkSome") =>
          /\ cb.state = Closed <=> probes = cb.open_threshold_count
          /\ cb.state = Closed =>
                cb.failure_count = 0 /\ cb.open_success_count = 0

\* C4 amended: a HalfOpen breaker closes after exactly
\* max(open_threshold_count, 1) successful probes in a row, not earlier and
\* not later, with both counters 0: with open_threshold_count = 0 the first
\* successful probe closes it, as with 1.
Quota(self) ==
    IF self.open_threshold_count = 0 THEN 1 ELSE self.open_threshold_count
C4_ClosesAtQuota ==
    /\ cb.state = HalfOpen => probes < Quota(cb)
    /\ (Returned /\ last.entry = HalfOpen /\ last.ret.tag = "OkSome") =>
          /\ cb.state = Closed <=> probes = Quota(cb)
          /\ cb.state = HalfOpen <=> probes < Quota(cb)
          /\ cb.state = Closed =>
                cb.failure_count = 0 /\ cb.open_success_count = 0

\* The second successful probe has closed a breaker of open_threshold_count 2.
C4_Witness ==
    /\ Returned
    /\ last.entry = HalfOpen
    /\ last.ret.tag = "OkSome"
    /\ cb.open_threshold_count = 2
    /\ probes = 2
    /\ cb.state = Closed
    /\ cb.failure_count = 0
    /\ cb.open_success_count = 0

\* C5: a call in HalfOpen that ends in an operation failure or a timeout
\* leaves the breaker Open with failure_count = 1, however many probes of
\* the episode succeeded before.
C5_ProbeFailureReopens ==
    (Returned /\ last.entry = HalfOpen
              /\ last.ret.tag \in {"FunctionError", "TimeoutError"}) =>
        cb.state = Open /\ cb.failure_count = 1

\* A probe failed after another probe of the same episode had succeeded.
C5_Witness ==
    /\ Returned
    /\ last.entry = HalfOpen
    /\ last.ret.tag = "FunctionError"
    /\ probes >= 1
    /\ cb.state = Open
    /\ cb.failure_count = 1

\* C6: a step taken while the breaker is Open spawns no worker and runs no
\* operation, whether the call is rejected or moves the breaker to HalfOpen;
\* the operation that runs first after a call made in Open is run by a call
\* that finds the breaker HalfOpen.
C6_OpenRunsNothing ==
    [][/\ cb.state = Open =>
            /\ worker' = NoWorker
            /\ BagCardinality(orphans') <= BagCardinality(orphans)
            /\ last' # last => ~last'.ran /\ last'.recv = NoRecv
       /\ (last.entry = Open /\ last'.ran /\ ~last.ran) =>
            cb.state = HalfOpen /\ last'.entry = HalfOpen]_vars

\* The first probe of a HalfOpen episode is running on its worker.
C6_Witness ==
    /\ pc = "waiting"
    /\ worker # NoWorker
    /\ last.entry = HalfOpen
    /\ last.ran
    /\ probes = 0
    /\ cb.state = HalfOpen

\* C7: a call made in Open moves the breaker to HalfOpen if and only if the
\* time elapsed since last_failure_time is at least recovery_time.
C7_LeavesOpenWhenElapsed ==
    [][CallOpen =>
          (cb'.state = HalfOpen <=>
              now - cb.last_failure_time >= cb.recovery_time)]_vars

\* C8: whenever the breaker is Open, and the caller keeps calling while time
\* passes, the breaker eventually is HalfOpen.
C8_SelfHeals == (cb.state = Open) ~> (cb.state = HalfOpen)

\* C9 (as stated): a call whose worker has delivered nothing when the
\* deadline elapses returns TimeoutError, also when its operation succeeds
\* later: no call receives a result after time has passed beyond its deadline
\* with nothing in the channel; and the completion of a worker left behind
\* changes no field of the breaker, no outcome and nothing the call in
\* progress will receive.
C9_AbandonedWorkerIsInert ==
    [][/\ (pc = "expired" /\ pc' = "idle") => last'.ret = TimeoutError
       /\ (pc = "waiting" /\ pc' = "idle") =>
            ~last.late /\ last'.recv = RecvOk(last.op)
       /\ BagCardinality(orphans') < BagCardinality(orphans) =>
            cb' = cb /\ last' = last /\ buf' = buf /\ pc' = pc]_vars

\* C9 (amended): once the timed wait of a call has ended without a result
\* (recv_timeout returned Err), the call returns TimeoutError whatever its
\* worker does afterwards; a call that receives, receives what its own
\* operation returned, which may have been sent after the deadline while
\* the caller had not run again; and the completion of a worker left behind
\* changes no field of the breaker, no outcome and nothing the call in
\* progress will receive.
C9_AbandonedAfterWaitIsInert ==
    [][/\ pc = "expired" =>
            /\ last.recv \in {RecvErr, RecvDisc}
            /\ last'.recv = last.recv
            /\ pc' \in {"expired", "idle"}
            /\ (pc' = "expired") => (cb' = cb /\ last' = last)
            /\ (pc' = "idle") => (last'.ret = TimeoutError)
       /\ (pc = "waiting" /\ pc' = "idle") =>
            last.op \in OpResults /\ last'.recv = RecvOk(last.op)
       /\ BagCardinality(orphans') < BagCardinality(orphans) =>
            cb' = cb /\ last' = last /\ buf' = buf /\ pc' = pc]_vars

\* A later call, made after the worker of a call that had timed out
\* completed, finds the result of its own operation in the channel after its
\* deadline has passed.
C9_Witness ==
    /\ pc = "waiting"
    /\ last.entry = HalfOpen
    /\ last.late
    /\ buf = last.op
    /\ buf \in OpResults
    /\ panicked
    /\ orphans = EmptyBag

\* What call returns, by the state at entry and the result of the timed
\* wait, the rows for TimeoutError left out: Ok(Some(v)) exactly for Closed
\* or HalfOpen and a wait that received Ok(v); FunctionError(e) exactly for
\* Closed or HalfOpen and a wait that received Err(e), with the operation's
\* own e; Ok(None) exactly for Open and a call that moved the breaker to
\* HalfOpen.
OutcomeRows ==
    LET attempted == last.entry \in {Closed, HalfOpen}
        received  == last.recv.tag = "Ok"
    IN  /\ last.ret.tag \in
              {"OkSome", "OkNone", "FunctionError", "TimeoutError"}
        /\ last.ret.tag = "OkSome" <=>
              attempted /\ received /\ last.recv.res.ok
        /\ last.ret.tag = "OkSome" =>
              last.ret.v = last.op.v /\ last.op.ok
        /\ last.ret.tag = "FunctionError" <=>
              attempted /\ received /\ ~last.recv.res.ok
        /\ last.ret.tag = "FunctionError" =>
              last.ret.v = last.op.v /\ last.op \in OpResults /\ ~last.op.ok
        /\ last.ret = OkNone <=>
              last.entry = Open /\ cb.state = HalfOpen

\* C10 (as stated): the rows above, and TimeoutError exactly for an elapsed
\* deadline or Open and a breaker that stays Open.
C10_OutcomeTable ==
    Returned =>
        /\ OutcomeRows
        /\ last.ret = TimeoutError <=>
              \/ last.recv = RecvErr
              \/ last.entry = Open /\ cb.state = Open

\* C10 (amended): the rows above, and TimeoutError exactly for a timed wait
\* that ended without a result, at the deadline or before it because the
\* worker ended without sending (its operation panicked), or Open and a
\* breaker that stays Open.
C10_OutcomeTableOfWait ==
    Returned =>
        /\ OutcomeRows
        /\ last.ret = TimeoutError <=>
              \/ last.recv \in {RecvErr, RecvDisc}
              \/ last.entry = Open /\ cb.state = Open

\* A probe whose operation panicked returned TimeoutError before time had
\* passed beyond its deadline, and opened the breaker.
C10_Witness ==
    /\ Returned
    /\ last.entry = HalfOpen
    /\ last.recv = RecvDisc
    /\ last.ret = TimeoutError
    /\ cb.timeout = 1
    /\ cb.state = Open


\* C11: failure_count is 0 when a call has returned the operation's value
\* (Closed or HalfOpen), and when the breaker has just moved from Open to
\* HalfOpen.
C11_SuccessClearsFailures ==
    /\ (Returned /\ last.ret.tag = "OkSome") => cb.failure_count = 0
    /\ (Returned /\ last.entry = Open /\ cb.state = HalfOpen) =>
          cb.failure_count = 0

\* A success in Closed after a counted failure has cleared the count.
C11_Witness ==
    /\ Returned
    /\ last.entry = Closed
    /\ last.fc = 1
    /\ last.ret.tag = "OkSome"
    /\ cb.failure_count = 0


\* C12 (as stated): open_success_count is reset to 0 on every entry to
\* HalfOpen and on every transition out of HalfOpen, so it is 0 in every
\* state where the breaker is Closed or Open.
C12_ZeroOutsideHalfOpen ==
    cb.state \in {Closed, Open} => cb.open_success_count = 0

\* C12 (amended): open_success_count is reset to 0 on every entry to HalfOpen
\* and on the transition HalfOpen->Closed, so it is 0 whenever the breaker is
\* Closed; in HalfOpen it is the number of successful probes of the episode,
\* and a failed or timed-out probe moves to Open leaving it as it was.
C12_ZeroWhenClosedOrEntering ==
    /\ cb.state = Closed => cb.open_success_count = 0
    /\ (Returned /\ last.entry = Open /\ cb.state = HalfOpen) =>
          cb.open_success_count = 0
    /\ cb.state = HalfOpen => cb.open_success_count = probes
    /\ (Returned /\ last.entry = HalfOpen /\ cb.state = Open) =>
          cb.open_success_count = probes

\* A probe succeeded, the next one failed or timed out: the breaker is Open
\* and open_success_count is still 1.
C12_Witness ==
    /\ Returned
    /\ last.entry = HalfOpen
    /\ cb.state = Open
    /\ probes = 1
    /\ cb.open_success_count = 1


\* C13: last_failure_time changes only in the step in which a call that ran
\* the operation returns FunctionError or TimeoutError; a call that returns
\* the operation's value, a call rejected in Open and the call that moves
\* Open->HalfOpen leave it as it was.
C13_FailureTimeFrame ==
    [][cb'.last_failure_time # cb.last_failure_time =>
          /\ RecvResult \/ HandleTimeout
          /\ last'.ran
          /\ last'.ret.tag \in {"FunctionError", "TimeoutError"}
          /\ cb'.last_failure_time = now]_vars

\* A call returned the operation's value after an earlier failure or timeout
\* had stamped last_failure_time.
C13_Witness ==
    /\ Returned
    /\ last.ret.tag = "OkSome"
    /\ cb.last_failure_time > 0
    /\ now # cb.last_failure_time


\* C14: for a breaker built with failure_threshold = 2 and
\* open_threshold_count = 2: the first two failures in a row leave it Closed
\* and the third opens it; while Open no call runs the operation, a call
\* made while the Open exit condition (RecoveryElapsed) does not hold is
\* rejected with TimeoutError and changes nothing, and the first call made
\* once it holds returns Ok(None) and moves to HalfOpen; the first successful
\* probe leaves the breaker HalfOpen and the second closes it with
\* failure_count = 0 and open_success_count = 0.
C14_Scenario ==
    [][(cb.failure_threshold = 2 /\ cb.open_threshold_count = 2) =>
          /\ (Returns /\ last'.entry = Closed
                       /\ last'.ret.tag = "FunctionError") =>
                /\ streak' \in 1..3
                /\ cb'.state = IF streak' = 3 THEN Open ELSE Closed
          /\ cb.state = Open =>
                /\ pc' = "idle" /\ worker' = NoWorker /\ buf' = NoResult
                /\ last' # last => ~last'.ran
                /\ BagCardinality(orphans') <= BagCardinality(orphans)
          /\ (CallOpen /\ ~RecoveryElapsed(cb)) =>
                last'.ret = TimeoutError /\ cb' = cb
          /\ (CallOpen /\ RecoveryElapsed(cb)) =>
                last'.ret = OkNone /\ cb'.state = HalfOpen
          /\ (Returns /\ last'.entry = HalfOpen
                       /\ last'.ret.tag = "OkSome") =>
                /\ probes' \in 1..2
                /\ probes' = 1 => cb'.state = HalfOpen
                /\ probes' = 2 => /\ cb'.state = Closed
                                  /\ cb'.failure_count = 0
                                  /\ cb'.open_success_count = 0]_vars

\* The second successful probe in a row has closed a breaker of threshold 2
\* and quota 2 that had opened and whose recovery_time is not 0.
C14_Witness ==
    /\ Returned
    /\ cb.failure_threshold = 2
    /\ cb.open_threshold_count = 2
    /\ cb.recovery_time > 0
    /\ last.entry = HalfOpen
    /\ last.ret.tag = "OkSome"
    /\ probes = 2
    /\ cb.state = Closed
    /\ cb.failure_count = 0
    /\ cb.open_success_count = 0


\* The worker threads alive: each runs the operation of one call once.
Threads == BagCardinality(orphans) + (IF worker = NoWorker THEN 0 ELSE 1)

\* C15: a call made in Closed or HalfOpen spawns exactly one worker, which
\* runs the operation of that call; no other step of the call, and no call
\* in Open, creates a worker (no retry after a failure or a timeout), and a
\* new call never takes over a worker of an earlier call.
C15_OneWorkerPerCall ==
    [][/\ (pc = "idle" /\ pc' = "waiting") =>
             /\ RunsOperation(cb.state)
             /\ worker = NoWorker
             /\ worker' # NoWorker
             /\ worker'.res = last'.op
             /\ orphans' = orphans
             /\ Threads' = Threads + 1
       /\ ~(pc = "idle" /\ pc' = "waiting") =>
             /\ Threads' <= Threads
             /\ Threads' >= Threads - 1
       /\ Returns => Threads' = Threads
       /\ (pc # "idle" /\ pc' # "idle") =>
             last'.entry = last.entry /\ last'.op = last.op]_vars

\* A probe is waiting for its own worker while the worker of the call that
\* timed out before it is still running.
C15_Witness ==
    /\ pc = "waiting"
    /\ last.entry = HalfOpen
    /\ worker # NoWorker
    /\ BagCardinality(orphans) = 1
    /\ Threads = 2


\* C16: a call rejected in Open with TimeoutError leaves every field of the
\* breaker as it was, and creates no worker and no message: after any number
\* of rejections in a row the breaker and its threads are as before them.
C16_RejectionChangesNothing ==
    [][(CallOpen /\ last'.ret = TimeoutError) =>
          /\ cb' = cb
          /\ cb'.state = Open
          /\ UNCHANGED <<now, pc, wait, worker, buf, orphans, panicked>>]_vars

\* Two calls in a row have been rejected in Open.
C16_Witness ==
    /\ Returned
    /\ last.entry = Open
    /\ last.ret = TimeoutError
    /\ rejects = 0
    /\ cb.state = Open
    /\ cb.failure_count >= 1


\* C17: the send of a worker left behind by a call that timed out never
\* fails: no worker thread panics in tx.send(res).unwrap(), whenever the
\* operation completes relative to the caller's return.
C17_SendNeverFails == ~panicked


\* C18: for open_threshold_count >= 1, after a HalfOpen episode that ended in
\* Open after prior >= 1 successful probes, the next HalfOpen episode starts
\* from zero: while HalfOpen the breaker has counted only the probes of this
\* episode, fewer than open_threshold_count, and a successful probe closes
\* it exactly when it is the open_threshold_count-th of this episode.
C18_ProbesDoNotCarryOver ==
    (cb.open_threshold_count >= 1 /\ prior >= 1) =>
        /\ (Returned /\ last.entry = Open /\ cb.state = HalfOpen) =>
              probes = 0 /\ cb.open_success_count = 0
        /\ cb.state = HalfOpen =>
              /\ cb.open_success_count = probes
              /\ probes < cb.open_threshold_count
        /\ (Returned /\ last.entry = HalfOpen /\ last.ret.tag = "OkSome") =>
              /\ cb.state = Closed <=> probes = cb.open_threshold_count
              /\ cb.state = HalfOpen <=> probes < cb.open_threshold_count

\* An episode ended in Open after one successful probe, and the next episode
\* has closed the breaker with two successful probes of its own.
C18_Witness ==
    /\ Returned
    /\ prior = 1
    /\ cb.open_threshold_count = 2
    /\ last.entry = HalfOpen
    /\ last.ret.tag = "OkSome"
    /\ probes = 2
    /\ cb.state = Closed


\* C19: in every reachable state, Closed implies failure_count <=
\* failure_threshold, HalfOpen implies failure_count = 0 and Open implies
\* failure_count >= 1.
C19_CountMatchesState ==
    /\ cb.state = Closed   => cb.failure_count <= cb.failure_threshold
    /\ cb.state = HalfOpen => cb.failure_count = 0
    /\ cb.state = Open     => cb.failure_count >= 1

\* The breaker is Closed with as many failures counted as its threshold of
\* 2 allows.
C19_Witness ==
    /\ Returned
    /\ last.ret.tag = "FunctionError"
    /\ cb.state = Closed
    /\ cb.failure_threshold = 2
    /\ cb.failure_count = 2


\* C20: for every failure_threshold of the u32 range, u32::MAX included,
\* `failure_count += 1` on a failure in Closed never overflows: the caller
\* never panics in call, and a call that returns FunctionError from Closed
\* leaves failure_count greater, as a u32, than it found it.
C20_NoOverflow ==
    /\ pc # "aborted"
    /\ last.ret # Panic
    /\ (Returned /\ last.entry = Closed /\ last.ret.tag = "FunctionError") =>
          LtU32(last.fc, cb.failure_count)

====
